---- MODULE Spec2Model ----
(***************************************************************************)
(* Investigation workflow engine of the AIOps multi-agent solution:        *)
(*   - InvestigationStore         (aiops/utils/dynamodb_helper.py)         *)
(*   - InvestigationContextStore  (aiops/utils/context_store.py)           *)
(*   - ExecutorAgent              (aiops/orchestrator/executor_agent.py)   *)
(*   - EvaluatorAgent             (aiops/orchestrator/evaluator_agent.py)  *)
(*   - invoke                     (aiops/main.py)                          *)
(* One investigation id is modelled; every DynamoDB item of that id is a   *)
(* variable.  Timestamps (created_at, updated_at, last_updated) are left   *)
(* out: no modelled operation reads them.                                  *)
(***************************************************************************)
EXTENDS Naturals, Integers, Sequences, FiniteSets, TLC

VARIABLES
    meta,      \* the METADATA item of the investigations table
    task,      \* the TASK#<id> items, by task id
    result,    \* the RESULT#<id> items, by task id
    plan,      \* the tasks list last handed to save_workflow
    ctx,       \* the item of the investigation-context table
    sqs,       \* messages sent to INVESTIGATION_QUEUE_URL
    inv,       \* the Executor invocations in flight (one per EXECUTION message)
    dispatched,\* how often each task was handed to its worker
    ret,       \* the last call and what it returned
    obj        \* the data-model object handed to a validator or constructor

vars == <<meta, task, result, plan, ctx, sqs, inv, dispatched, ret, obj>>

-----------------------------------------------------------------------------
(* Bounds of the model *)

MaxPlanLen == 2
MaxCompleted == 3
MaxVersion == 4
MaxTimeline == 3
MaxInvocations == 2

-----------------------------------------------------------------------------
(* Values *)

None == "None"
TaskIds == {"A", "B"}

\* The priority each task carries in the plans of the model: the later id is
\* the more urgent one (a lower value is more urgent).
PriorityOf(id) == IF id = "A" THEN 2 ELSE 1

\* aiops/agents/agent_configs.py AGENT_CONFIGS keys used by the Executor
AgentTypes == {"NotificationAgent", "RootCauseAnalysisAgent", "LogsAgent"}

\* A confidence_score in the JSON a worker answers with, as json.loads gives
\* it: absent, an int or a float; the value is kept in hundredths.
NoScore == [present |-> FALSE, hundredths |-> 0, is_float |-> FALSE]

\* What a worker hands back to execute_workflow: its status, its error text
\* and the confidence_score of its JSON, if any.
WorkerResults ==
    { [status |-> "completed", error |-> None, confidence_score |-> NoScore],
      [status |-> "error", error |-> "boom", confidence_score |-> NoScore] }

SeqToSet(s) == { s[i] : i \in 1..Len(s) }

Contains(s, x) == \E i \in 1..Len(s) : s[i] = x

\* Python list.remove(x): drops the first occurrence of x.
RECURSIVE RemoveFirst(_, _)
RemoveFirst(s, x) ==
    IF s = <<>> THEN <<>>
    ELSE IF Head(s) = x THEN Tail(s)
    ELSE <<Head(s)>> \o RemoveFirst(Tail(s), x)

-----------------------------------------------------------------------------
(* Plans: the tasks argument of save_workflow.  save_workflow validates    *)
(* nothing, so any list of task dicts is an input.                         *)

\* A key the task dict does not have: task['...'] raises KeyError on it.
Missing == "<missing>"

PlanTask(id, agent, prio, deps) ==
    [task_id |-> id, agent_type |-> agent, priority |-> prio, dependencies |-> deps]

QueueTasks ==
    UNION { { PlanTask(id, "LogsAgent", PriorityOf(id), deps) :
                deps \in SUBSET (TaskIds \ {id}) } : id \in TaskIds }

SeqsUpTo(S, n) == UNION { [1..k -> S] : k \in 1..n }

\* Task lists with a dict that lacks a key save_workflow subscripts:
\* agent_type (read in the loop, as description and priority are) or task_id
\* (read when task_ids is built).
MalformedPlans ==
    { << PlanTask("A", "LogsAgent", PriorityOf("A"), {}),
         PlanTask("B", Missing, PriorityOf("B"), {}) >>,
      << PlanTask("A", "LogsAgent", PriorityOf("A"), {}),
         PlanTask(Missing, "LogsAgent", PriorityOf("B"), {}) >> }

QueuePlans == SeqsUpTo(QueueTasks, MaxPlanLen) \cup MalformedPlans

HasKeys(t) == t.task_id # Missing /\ t.agent_type # Missing

TaskIdsOf(p) == [i \in 1..Len(p) |-> p[i].task_id]

\* Dependencies the plan gives task id (of every entry carrying that id).
Deps(p, id) == UNION { p[i].dependencies : i \in { j \in 1..Len(p) : p[j].task_id = id } }

\* A plan whose tasks have their keys, whose ids are distinct and whose
\* dependencies only name tasks defined earlier in it.
ValidPlan(p) ==
    /\ \A i \in 1..Len(p) : HasKeys(p[i])
    /\ \A i, j \in 1..Len(p) : i # j => p[i].task_id # p[j].task_id
    /\ \A i \in 1..Len(p) :
         p[i].dependencies \subseteq { p[j].task_id : j \in 1..(i-1) }

\* A plan with distinct ids whose dependencies name tasks of the plan and can
\* be satisfied by some execution order (an acyclic dependency graph).
Schedulable(p) ==
    LET ids == SeqToSet(TaskIdsOf(p)) IN
    /\ \A i \in 1..Len(p) : HasKeys(p[i])
    /\ \A i, j \in 1..Len(p) : i # j => p[i].task_id # p[j].task_id
    /\ \A i \in 1..Len(p) : p[i].dependencies \subseteq ids
    /\ \E rank \in [ids -> 1..Len(p)] :
         \A i \in 1..Len(p) :
            \A d \in p[i].dependencies : rank[d] < rank[p[i].task_id]

-----------------------------------------------------------------------------
(* Items of the investigations table *)

NoMeta == [exists |-> FALSE, status |-> None, current_task |-> None,
           completed_tasks |-> <<>>, pending_tasks |-> <<>>]

NoTask == [exists |-> FALSE, status |-> None, agent_type |-> None, priority |-> 0]

NoResult == [exists |-> FALSE, status |-> None, error |-> None,
             confidence_score |-> NoScore]

\* save_workflow, the METADATA put_item.
SaveWorkflowMeta(p) ==
    LET task_ids == TaskIdsOf(p) IN
    [exists |-> TRUE,
     status |-> "PENDING",
     current_task |-> IF task_ids # <<>> THEN task_ids[1] ELSE None,
     completed_tasks |-> <<>>,
     pending_tasks |-> task_ids]

\* save_workflow, line 25: the list of ids cannot be built (KeyError).
SaveWorkflowRaisesFirst(p) == \E i \in 1..Len(p) : p[i].task_id = Missing

\* save_workflow, the loop: how many tasks it puts before a dict that lacks a
\* key makes it raise (all of them when no dict does).
TasksWritten(p) ==
    IF \A i \in 1..Len(p) : HasKeys(p[i]) THEN Len(p)
    ELSE (CHOOSE i \in 1..Len(p) :
            ~HasKeys(p[i]) /\ \A j \in 1..(i - 1) : HasKeys(p[j])) - 1

\* save_workflow, the put_item of each task in list order: a later entry with
\* the same id overwrites an earlier one; items of other ids stay.
SaveWorkflowTasks(old, p) ==
    [t \in TaskIds |->
        LET idx == { i \in 1..TasksWritten(p) : p[i].task_id = t } IN
        IF idx = {} THEN old[t]
        ELSE LET last == CHOOSE i \in idx : \A j \in idx : j <= i IN
             [exists |-> TRUE, status |-> "PENDING",
              agent_type |-> p[last].agent_type, priority |-> p[last].priority]]

\* get_next_task: the METADATA read, then the read of TASK#<current_task>.
GetNextTaskOf(m, tk) ==
    IF m.current_task = None THEN None
    ELSE IF tk[m.current_task].exists THEN m.current_task
    ELSE None

\* get_workflow: the query of every item of the investigation; the status it
\* returns is the METADATA item's status attribute, and the tasks are all the
\* TASK# items the table holds for the id.
GetWorkflowOf(m, tk) ==
    [status |-> IF m.exists /\ m.status # None THEN m.status ELSE "UNKNOWN",
     tasks |-> [t \in { u \in TaskIds : tk[u].exists } |-> tk[t].status]]

\* An execution plan that records the completion and leaves the pending list
\* and the pointer as they were.
CompleteTaskPlanKeepPending(m, task_id) ==
    [m EXCEPT !.exists = TRUE,
              !.completed_tasks = Append(m.completed_tasks, task_id)]

\* complete_task, the execution plan it computes from the METADATA it read.
\* The update_item sets execution_plan only: the item's status stays.
CompleteTaskPlan(m, task_id) ==
    LET completed == Append(m.completed_tasks, task_id)
        pending == IF Contains(m.pending_tasks, task_id)
                   THEN RemoveFirst(m.pending_tasks, task_id)
                   ELSE m.pending_tasks
    IN [exists |-> TRUE,
        status |-> m.status,
        current_task |-> IF pending # <<>> THEN pending[1] ELSE None,
        completed_tasks |-> completed,
        pending_tasks |-> pending]

\* complete_task, the update_item of TASK#<task_id> (creates the item if absent).
CompleteTaskItem(item) == [item EXCEPT !.exists = TRUE, !.status = "COMPLETED"]

\* complete_task, the put_item of RESULT#<task_id>.
ResultItem(r) == [exists |-> TRUE, status |-> r.status, error |-> r.error,
                  confidence_score |-> r.confidence_score]

\* complete_task hands the result dict to put_item as it is: boto3 refuses a
\* Python float (TypeError, "Float types are not supported").
ResultPutRaises(r) == r.confidence_score.present /\ r.confidence_score.is_float

Ret(op, a, v) == [op |-> op, arg |-> a, val |-> v]

-----------------------------------------------------------------------------
(* ExecutorAgent: what one execute_workflow invocation holds between its   *)
(* calls to the stores and to the worker.                                  *)

NoWorkerResult == [status |-> None, error |-> None, confidence_score |-> NoScore]

IdleInvocation ==
    [pc |-> "idle", task |-> None, agent_type |-> None,
     result |-> NoWorkerResult, new_plan |-> NoMeta,
     cancelled |-> FALSE, out |-> None]

\* Messages an agent answers with: plain text, and JSON objects that carry a
\* confidence_score outside [0,1] as an integer and as a float.
WorkerMessages ==
    { "done", "{\"confidence_score\": 2}", "{\"confidence_score\": 1.5}" }

\* execute_task: re.search(r'\{.*\}') and json.loads of the message, then
\* **parsed_result; the confidence_score the returned dict carries.
ParsedScore(message) ==
    IF message = "{\"confidence_score\": 2}"
    THEN [present |-> TRUE, hundredths |-> 200, is_float |-> FALSE]
    ELSE IF message = "{\"confidence_score\": 1.5}"
    THEN [present |-> TRUE, hundredths |-> 150, is_float |-> TRUE]
    ELSE NoScore

WorkerOutcomes == {"raised"} \cup WorkerMessages

\* Messages whose JSON carries a status of its own (the worker agents' tools
\* answer with "status": "success"), and one whose braces hold no JSON.
StatusMessages ==
    { "{\"status\": \"success\"}", "{\"status\": \"failed\"}", "{not json}" }

\* execute_task: {"status": "completed", "message": message, **parsed_result};
\* a status key of parsed_result replaces the literal one.
ParsedStatus(message) ==
    IF message = "{\"status\": \"success\"}" THEN "success"
    ELSE IF message = "{\"status\": \"failed\"}" THEN "failed"
    ELSE "completed"

\* gateway_config.AGENT_GATEWAY_CONFIG: the only agent with a gateway.
HasGateway(agent_type) == agent_type = "NotificationAgent"

\* execute_task: what it returns, by what happened in its try block.
\*   "no_gateway"  get_gateways_for_agent gave no gateway
\*   "raised"      the gateway, the tool listing or the agent call raised
\*   a message     the agent answered with that message
ExecuteTaskResult(agent_type, outcome) ==
    IF ~HasGateway(agent_type)
    THEN [status |-> "error", error |-> "No gateway configured",
          confidence_score |-> NoScore]
    ELSE IF outcome = "raised"
    THEN [status |-> "error", error |-> "boom", confidence_score |-> NoScore]
    ELSE [status |-> ParsedStatus(outcome), error |-> None,
          confidence_score |-> ParsedScore(outcome)]

\* execute_workflow: finding_data["status"] = result.get("status", "completed")
FindingData(r) == r.status

\* execute_workflow: the timeline text f"Task {task_id} completed by {agent_type}"
TimelineText(task_id, agent_type) ==
    "Task " \o task_id \o " completed by " \o agent_type

-----------------------------------------------------------------------------
(* The item of the investigation-context table.  confidence is kept in     *)
(* hundredths (85 is 0.85): convert_floats stores the decimal text of the  *)
(* float and convert_decimals reads it back.                               *)

NoFindings == [k \in {} |-> None]

NoCtx == [exists |-> FALSE, status |-> None, confidence |-> 0,
          current_hypothesis |-> None, findings |-> NoFindings,
          timeline |-> <<>>, version |-> 0]

\* create_context: the put_item replaces whatever item the id had.
CreateContextItem ==
    [exists |-> TRUE, status |-> "IN_PROGRESS", confidence |-> 0,
     current_hypothesis |-> "", findings |-> NoFindings,
     timeline |-> <<>>, version |-> 0]

\* update_finding: key = f"{task_id}_{agent_type}"
FindingKey(task_id, agent_type) == task_id \o "_" \o agent_type

\* The findings map written whole: SET findings = :data
UpdateFindingReplaceAll(item, key, data) ==
    [item EXCEPT !.findings = (key :> data),
                 !.version = item.version + 1]

\* update_finding: SET findings.#key = :data, version = version + :inc
UpdateFindingItem(item, key, data) ==
    [item EXCEPT !.findings = (key :> data) @@ item.findings,
                 !.version = item.version + 1]

\* add_timeline_event: the event_item it builds
EventItem(event, source) == [event |-> event, source |-> source]

\* A timeline written back from the caller's own list: SET timeline = :event
AddTimelineEventOverwrite(item, event_item) ==
    [item EXCEPT !.timeline = <<event_item>>,
                 !.version = item.version + 1]

\* add_timeline_event: SET timeline = list_append(if_not_exists(timeline,
\* :empty), :event), version = version + :inc
AddTimelineEventItem(item, event_item) ==
    [item EXCEPT !.timeline = item.timeline \o <<event_item>>,
                 !.version = item.version + 1]

\* update_hypothesis: SET current_hypothesis, confidence (root_cause_candidates
\* go with the hypothesis), version = version + :inc
UpdateHypothesisItem(item, hypothesis, confidence) ==
    [item EXCEPT !.current_hypothesis = hypothesis,
                 !.confidence = confidence,
                 !.version = item.version + 1]

\* update_status: SET #status = :status, version = version + :inc
UpdateStatusItem(item, status) ==
    [item EXCEPT !.status = status, !.version = item.version + 1]

\* An update_item whose expression reads an attribute (version, findings) of
\* an item that does not exist is refused by DynamoDB: the call raises.
UpdateRaises(item) == ~item.exists

-----------------------------------------------------------------------------
(* The Task Queue / Workflow Store on its own: calls of save_workflow,     *)
(* get_next_task and complete_task, one after the other.                   *)

InitStores ==
    /\ meta = NoMeta
    /\ task = [t \in TaskIds |-> NoTask]
    /\ result = [t \in TaskIds |-> NoResult]
    /\ plan = <<>>
    /\ sqs = 0
    /\ inv = [i \in 1..MaxInvocations |-> IdleInvocation]
    /\ dispatched = [t \in TaskIds |-> 0]
    /\ ret = Ret("init", None, None)

InitQueue == InitStores /\ ctx = NoCtx /\ obj = None

save_workflow(p) ==
    /\ IF SaveWorkflowRaisesFirst(p)
       THEN /\ UNCHANGED <<meta, task>>
            /\ ret' = Ret("save_workflow", None, "raised")
       ELSE /\ meta' = SaveWorkflowMeta(p)
            /\ task' = SaveWorkflowTasks(task, p)
            /\ ret' = Ret("save_workflow", None,
                          IF TasksWritten(p) < Len(p) THEN "raised" ELSE None)
    /\ plan' = p
    /\ UNCHANGED <<result, ctx, sqs, inv, dispatched, obj>>

get_next_task ==
    /\ ret' = Ret("get_next_task", None, GetNextTaskOf(meta, task))
    /\ UNCHANGED <<meta, task, result, plan, ctx, sqs, inv, dispatched, obj>>

get_workflow ==
    /\ ret' = Ret("get_workflow", None, GetWorkflowOf(meta, task))
    /\ UNCHANGED <<meta, task, result, plan, ctx, sqs, inv, dispatched, obj>>

complete_task(t, r) ==
    /\ Len(meta.completed_tasks) < MaxCompleted
    /\ meta' = CompleteTaskPlan(meta, t)
    /\ task' = [task EXCEPT ![t] = CompleteTaskItem(task[t])]
    /\ result' = IF ResultPutRaises(r) THEN result
                  ELSE [result EXCEPT ![t] = ResultItem(r)]
    /\ ret' = Ret("complete_task", t, IF ResultPutRaises(r) THEN "raised" ELSE None)
    /\ UNCHANGED <<plan, ctx, sqs, inv, dispatched, obj>>

SaveWorkflowCall == \E p \in QueuePlans : save_workflow(p)

CompleteTaskCall == \E t \in TaskIds, r \in WorkerResults : complete_task(t, r)

NextQueue ==
    \/ SaveWorkflowCall
    \/ get_next_task
    \/ get_workflow
    \/ CompleteTaskCall

SpecQueue == InitQueue /\ [][NextQueue]_vars

-----------------------------------------------------------------------------
(* Claims about the Task Queue *)

Completed(t) == task[t].exists /\ task[t].status = "COMPLETED"

\* C1: for every plan saved with save_workflow and every sequence of
\* complete_task calls, get_next_task never returns a task that has a
\* dependency whose status is not COMPLETED.  Stated for the plans whose
\* dependencies can be satisfied at all (distinct ids, acyclic).
C1_NextTaskDepsCompleted ==
    (Schedulable(plan) /\ ret.op = "get_next_task" /\ ret.val # None)
        => \A d \in Deps(plan, ret.val) : Completed(d)

\* C3: a second complete_task for the same task with the same result changes
\* nothing: the execution plan (completed_tasks, pending_tasks, current_task)
\* and the Context findings stay as they were.
C3_SecondCompleteChangesNothing ==
    [][ ( /\ ret'.op = "complete_task"
          /\ Completed(ret'.arg)
          /\ Contains(meta.completed_tasks, ret'.arg)
          /\ result'[ret'.arg] = result[ret'.arg] )
        => (meta' = meta /\ ctx'.findings = ctx.findings) ]_vars

\* The worker of task t ended in error (the result the Executor stored).
Failed(t) == result[t].exists /\ result[t].status = "error"

\* C10: when task A has failed and the remaining task B depends on A,
\* get_next_task does not return B.
C10_FailedDependencyNotReturned ==
    (ValidPlan(plan) /\ ret.op = "get_next_task" /\ ret.val # None)
        => \A d \in Deps(plan, ret.val) : ~Failed(d)

Ready(t) ==
    /\ task[t].exists /\ task[t].status = "PENDING"
    /\ \A d \in Deps(plan, t) : Completed(d)

\* C12: among the PENDING tasks whose dependencies are all COMPLETED,
\* get_next_task returns one with the lowest priority value.
C12_LowestPriorityFirst ==
    (ValidPlan(plan) /\ ret.op = "get_next_task" /\ ret.val # None)
        => \A i \in 1..Len(plan) :
              Ready(plan[i].task_id) => task[ret.val].priority <= plan[i].priority

\* C14: save_workflow of a plan that is not well-formed fails before anything
\* is written: neither the METADATA record nor any TASK record changes.
C14_InvalidPlanNotPersisted ==
    [][ (ret'.op = "save_workflow" /\ ~ValidPlan(plan'))
        => (ret'.val = "raised" /\ meta' = meta /\ task' = task) ]_vars

\* The investigation has a round, saved whole, with tasks still pending.
ActiveRound == meta.exists /\ ValidPlan(plan) /\ meta.pending_tasks # <<>>

\* C15: save_workflow for an investigation that already has an active,
\* unresolved round fails and leaves the existing plan, the task statuses,
\* the completed_tasks list and the execution pointer unchanged.
C15_DuplicateRoundRejected ==
    [][ (ret'.op = "save_workflow" /\ ActiveRound /\ ValidPlan(plan'))
        => (ret'.val = "raised" /\ meta' = meta /\ task' = task) ]_vars

\* Every task of the current plan has reached the terminal status.
RoundTerminal ==
    /\ plan # <<>>
    /\ \A t \in SeqToSet(TaskIdsOf(plan)) : Completed(t)

\* What a caller of get_workflow can read as "the round is complete": the
\* status it returns says so, or every task it lists is COMPLETED.
ReportsComplete(w) ==
    \/ w.status = "COMPLETED"
    \/ \A t \in DOMAIN w.tasks : w.tasks[t] = "COMPLETED"

\* C13: once all tasks of the round have reached a terminal state,
\* get_workflow reports the round as complete.
C13_RoundCompletionReported ==
    (ValidPlan(plan) /\ RoundTerminal /\ ret.op = "get_workflow")
        => ReportsComplete(ret.val)

\* C24: a task's record becomes COMPLETED only from RUNNING, and once it is
\* COMPLETED (a terminal state) no operation changes its status.
C24_StatusThroughRunning ==
    [][\A t \in TaskIds :
           /\ ( /\ ValidPlan(plan) /\ meta.current_task = t
                /\ task[t].exists /\ task[t].status # "COMPLETED"
                /\ task'[t].status = "COMPLETED" )
              => task[t].status = "RUNNING"
           /\ Completed(t) => task'[t].status = "COMPLETED"]_vars

NoDuplicates(s) == \A i, j \in 1..Len(s) : s[i] = s[j] => i = j

\* C28: after any sequence of save_workflow and complete_task calls,
\* completed_tasks and pending_tasks are duplicate-free and disjoint, their
\* union is exactly the plan's task ids, and current_task is the first
\* element of pending_tasks, or None when pending_tasks is empty.
C28_ExecutionPlanWellFormed ==
    (ValidPlan(plan) /\ plan # <<>> /\ meta.exists)
        => /\ NoDuplicates(meta.completed_tasks)
           /\ NoDuplicates(meta.pending_tasks)
           /\ SeqToSet(meta.completed_tasks) \cap SeqToSet(meta.pending_tasks) = {}
           /\ SeqToSet(meta.completed_tasks) \cup SeqToSet(meta.pending_tasks)
                  = SeqToSet(TaskIdsOf(plan))
           /\ meta.current_task = IF meta.pending_tasks = <<>> THEN None
                                  ELSE Head(meta.pending_tasks)

-----------------------------------------------------------------------------
(* The Investigation Context store on its own: calls of its six methods.   *)
(* Each mutating method is one DynamoDB UpdateItem, which DynamoDB applies *)
(* atomically to the item, so concurrent callers are interleavings of      *)
(* these steps.                                                            *)

CtxTasks == {"A", "B"}
CtxAgents == {"LogsAgent"}
CtxData == {"d1", "d2"}
CtxEvents == {"e1", "e2"}
CtxStatuses == {"IN_PROGRESS", "COMPLETED", "CANCELLED"}
\* hypothesis and confidence (hundredths) handed to update_hypothesis
CtxHypotheses == { <<"h1", 40>>, <<"h2", 85>>, <<"h3", 150>> }

InitCtx == InitStores /\ ctx = NoCtx /\ obj = None

CtxFrame == UNCHANGED <<meta, task, result, plan, sqs, inv, dispatched, obj>>

create_context ==
    /\ ctx' = CreateContextItem
    /\ ret' = Ret("create_context", None, "ok")
    /\ CtxFrame

update_finding(task_id, agent_type, finding_data) ==
    /\ ctx.version < MaxVersion
    /\ IF UpdateRaises(ctx)
       THEN /\ ctx' = ctx
            /\ ret' = Ret("update_finding", FindingKey(task_id, agent_type), "raised")
       ELSE /\ ctx' = UpdateFindingItem(ctx, FindingKey(task_id, agent_type), finding_data)
            /\ ret' = Ret("update_finding", FindingKey(task_id, agent_type), "ok")
    /\ CtxFrame

add_timeline_event(event, source) ==
    /\ ctx.version < MaxVersion
    /\ Len(ctx.timeline) < MaxTimeline
    /\ IF UpdateRaises(ctx)
       THEN /\ ctx' = ctx
            /\ ret' = Ret("add_timeline_event", EventItem(event, source), "raised")
       ELSE /\ ctx' = AddTimelineEventItem(ctx, EventItem(event, source))
            /\ ret' = Ret("add_timeline_event", EventItem(event, source), "ok")
    /\ CtxFrame

update_hypothesis(hypothesis, confidence) ==
    /\ ctx.version < MaxVersion
    /\ IF UpdateRaises(ctx)
       THEN /\ ctx' = ctx
            /\ ret' = Ret("update_hypothesis", None, "raised")
       ELSE /\ ctx' = UpdateHypothesisItem(ctx, hypothesis, confidence)
            /\ ret' = Ret("update_hypothesis", None, "ok")
    /\ CtxFrame

update_status(status) ==
    /\ ctx.version < MaxVersion
    /\ IF UpdateRaises(ctx)
       THEN /\ ctx' = ctx
            /\ ret' = Ret("update_status", None, "raised")
       ELSE /\ ctx' = UpdateStatusItem(ctx, status)
            /\ ret' = Ret("update_status", None, "ok")
    /\ CtxFrame

\* get_context: a read; None when the item does not exist.
get_context ==
    /\ ret' = Ret("get_context", None, IF ctx.exists THEN "item" ELSE None)
    /\ UNCHANGED ctx
    /\ CtxFrame

UpdateFindingCall ==
    \E t \in CtxTasks, a \in CtxAgents, d \in CtxData : update_finding(t, a, d)

AddTimelineEventCall ==
    \E e \in CtxEvents, a \in CtxAgents : add_timeline_event(e, a)

UpdateHypothesisCall == \E h \in CtxHypotheses : update_hypothesis(h[1], h[2])

UpdateStatusCall == \E st \in CtxStatuses : update_status(st)

NextCtx ==
    \/ create_context
    \/ UpdateFindingCall
    \/ AddTimelineEventCall
    \/ UpdateHypothesisCall
    \/ UpdateStatusCall
    \/ get_context

SpecCtx == InitCtx /\ [][NextCtx]_vars

-----------------------------------------------------------------------------
(* Claims about the Investigation Context *)

MutatingCalls ==
    {"update_finding", "add_timeline_event", "update_hypothesis", "update_status"}

\* C5: in every sequence of Context store operations the version strictly
\* increases on each mutating call, is unchanged by get_context, and never
\* decreases.
C5_VersionMonotonic ==
    [][ /\ (ret'.op \in MutatingCalls /\ ret'.val = "ok")
            => ctx'.version > ctx.version
        /\ (ret'.op = "get_context") => ctx'.version = ctx.version
        /\ ctx'.version >= ctx.version ]_vars

\* C6: add_timeline_event appends exactly one event and loses none: whatever
\* other calls came before it, in any interleaving, the timeline after the
\* call is the timeline before it plus the new event at the end.
C6_TimelineAppendKeepsEvents ==
    [][ (ret'.op = "add_timeline_event" /\ ret'.val = "ok")
        => ctx'.timeline = Append(ctx.timeline, ret'.arg) ]_vars

C6_Witness ==
    /\ ret.op = "add_timeline_event" /\ ret.val = "ok"
    /\ Len(ctx.timeline) = 2
    /\ ctx.timeline[1] # ctx.timeline[2]

\* C7: update_finding changes only the findings entry keyed
\* '{task_id}_{agent_type}' and version (+1): every other findings key, the
\* timeline, hypothesis, confidence and status are left unchanged, whatever
\* keys other callers wrote before.
C7_UpdateFindingFrame ==
    [][ (ret'.op = "update_finding" /\ ret'.val = "ok")
        => /\ DOMAIN ctx'.findings = DOMAIN ctx.findings \cup {ret'.arg}
           /\ \A k \in DOMAIN ctx.findings \ {ret'.arg} :
                 ctx'.findings[k] = ctx.findings[k]
           /\ ctx'.version = ctx.version + 1
           /\ ctx'.timeline = ctx.timeline
           /\ ctx'.current_hypothesis = ctx.current_hypothesis
           /\ ctx'.confidence = ctx.confidence
           /\ ctx'.status = ctx.status
           /\ ctx'.exists = ctx.exists ]_vars

C7_Witness ==
    /\ ret.op = "update_finding" /\ ret.val = "ok"
    /\ Cardinality(DOMAIN ctx.findings) = 2
    /\ Len(ctx.timeline) > 0
    /\ ctx.confidence > 0

\* C17: create_context called for an investigation id that already has a
\* context fails and leaves the existing context (findings, timeline,
\* hypothesis, confidence, status, version) unchanged.
C17_CreateContextTwiceRejected ==
    [][ (ret'.op = "create_context" /\ ctx.exists)
        => (ret'.val = "raised" /\ ctx' = ctx) ]_vars

\* C18: the confidence stored in a Context lies in [0,1] (0..100 hundredths)
\* after any sequence of operations: update_hypothesis rejects any other.
C18_ConfidenceInRange ==
    ctx.exists => ctx.confidence \in 0..100

-----------------------------------------------------------------------------
(* The Coordinator: invoke() routing EXECUTION messages to                 *)
(* ExecutorAgent.execute_workflow.  Every delivery of an EXECUTION message *)
(* (SQS delivers at least once, so also a duplicate) starts an invocation; *)
(* invocations run in independent processes and interleave at their calls *)
(* to DynamoDB and to the worker.  The planner is its tools save_workflow  *)
(* and create_context, each called once here; update_hypothesis and        *)
(* update_status are the tools of agents and of whoever cancels.           *)

ExecPlans ==
    { << PlanTask("A", "NotificationAgent", 1, {}),
         PlanTask("B", "RootCauseAnalysisAgent", 2, {"A"}) >>,
      << PlanTask("A", "LogsAgent", 1, {}),
         PlanTask("B", "NotificationAgent", 2, {"A"}) >> }

Init == InitStores /\ ctx = NoCtx /\ obj = None

Step(i, rec) == inv' = [inv EXCEPT ![i] = rec]

Running(i, pc) == ret' = Ret("execute_workflow", i, pc)

\* invoke(): message_type EXECUTION
StartExecution(i) ==
    /\ inv[i].pc = "idle"
    /\ Step(i, [inv[i] EXCEPT !.pc = "get_next_task",
                              !.cancelled = (ctx.exists /\ ctx.status = "CANCELLED")])
    /\ Running(i, "get_next_task")
    /\ UNCHANGED <<meta, task, result, plan, ctx, sqs, dispatched, obj>>

\* get_next_task, the METADATA read
ExecGetMetadata(i) ==
    /\ inv[i].pc = "get_next_task"
    /\ IF meta.current_task = None
       THEN /\ Step(i, [inv[i] EXCEPT !.pc = "done", !.out = "no_tasks"])
            /\ Running(i, "no_tasks")
       ELSE /\ Step(i, [inv[i] EXCEPT !.pc = "read_task", !.task = meta.current_task])
            /\ Running(i, "read_task")
    /\ UNCHANGED <<meta, task, result, plan, ctx, sqs, dispatched, obj>>

\* get_next_task, the TASK#<current_task> read
ExecGetTask(i) ==
    /\ inv[i].pc = "read_task"
    /\ IF ~task[inv[i].task].exists
       THEN /\ Step(i, [inv[i] EXCEPT !.pc = "done", !.out = "no_tasks"])
            /\ Running(i, "no_tasks")
       ELSE /\ Step(i, [inv[i] EXCEPT !.pc = "execute_task",
                                      !.agent_type = task[inv[i].task].agent_type])
            /\ Running(i, "execute_task")
    /\ UNCHANGED <<meta, task, result, plan, ctx, sqs, dispatched, obj>>

\* execute_task: the worker is called when the agent has a gateway
ExecExecuteTask(i, outcome) ==
    /\ inv[i].pc = "execute_task"
    /\ Step(i, [inv[i] EXCEPT !.pc = "update_finding",
                              !.result = ExecuteTaskResult(inv[i].agent_type, outcome)])
    /\ dispatched' = [dispatched EXCEPT ![inv[i].task] =
                        IF HasGateway(inv[i].agent_type) THEN @ + 1 ELSE @]
    /\ Running(i, "update_finding")
    /\ UNCHANGED <<meta, task, result, plan, ctx, sqs, obj>>

\* context_store.update_finding; a raise ends execute_workflow in its except
ExecUpdateFinding(i) ==
    /\ inv[i].pc = "update_finding"
    /\ IF UpdateRaises(ctx)
       THEN /\ ctx' = ctx
            /\ Step(i, [inv[i] EXCEPT !.pc = "done", !.out = "error"])
            /\ Running(i, "error")
       ELSE /\ ctx' = UpdateFindingItem(ctx, FindingKey(inv[i].task, inv[i].agent_type),
                                        FindingData(inv[i].result))
            /\ Step(i, [inv[i] EXCEPT !.pc = "add_timeline_event"])
            /\ Running(i, "add_timeline_event")
    /\ UNCHANGED <<meta, task, result, plan, sqs, dispatched, obj>>

\* context_store.add_timeline_event
ExecAddTimelineEvent(i) ==
    /\ inv[i].pc = "add_timeline_event"
    /\ IF UpdateRaises(ctx)
       THEN /\ ctx' = ctx
            /\ Step(i, [inv[i] EXCEPT !.pc = "done", !.out = "error"])
            /\ Running(i, "error")
       ELSE /\ ctx' = AddTimelineEventItem(ctx,
                          EventItem(TimelineText(inv[i].task, inv[i].agent_type),
                                    inv[i].agent_type))
            /\ Step(i, [inv[i] EXCEPT !.pc = "complete_task"])
            /\ Running(i, "complete_task")
    /\ UNCHANGED <<meta, task, result, plan, sqs, dispatched, obj>>

\* store.complete_task, the METADATA read and the plan computed from it
ExecCompleteRead(i) ==
    /\ inv[i].pc = "complete_task"
    /\ Step(i, [inv[i] EXCEPT !.pc = "write_metadata",
                              !.new_plan = CompleteTaskPlan(meta, inv[i].task)])
    /\ Running(i, "write_metadata")
    /\ UNCHANGED <<meta, task, result, plan, ctx, sqs, dispatched, obj>>

\* store.complete_task, the METADATA update_item
ExecCompleteMetadata(i) ==
    /\ inv[i].pc = "write_metadata"
    /\ meta' = [inv[i].new_plan EXCEPT !.status = meta.status]
    /\ Step(i, [inv[i] EXCEPT !.pc = "write_task"])
    /\ Running(i, "write_task")
    /\ UNCHANGED <<task, result, plan, ctx, sqs, dispatched, obj>>

\* store.complete_task, the TASK#<task_id> update_item
ExecCompleteTask(i) ==
    /\ inv[i].pc = "write_task"
    /\ task' = [task EXCEPT ![inv[i].task] = CompleteTaskItem(@)]
    /\ Step(i, [inv[i] EXCEPT !.pc = "write_result"])
    /\ Running(i, "write_result")
    /\ UNCHANGED <<meta, result, plan, ctx, sqs, dispatched, obj>>

\* store.complete_task, the RESULT#<task_id> put_item; a raise ends
\* execute_workflow in its except
ExecCompleteResult(i) ==
    /\ inv[i].pc = "write_result"
    /\ IF ResultPutRaises(inv[i].result)
       THEN /\ result' = result
            /\ Step(i, [inv[i] EXCEPT !.pc = "done", !.out = "error"])
            /\ Running(i, "error")
       ELSE /\ result' = [result EXCEPT ![inv[i].task] = ResultItem(inv[i].result)]
            /\ Step(i, [inv[i] EXCEPT !.pc = "finish"])
            /\ Running(i, "finish")
    /\ UNCHANGED <<meta, task, plan, ctx, sqs, dispatched, obj>>

\* RootCauseAnalysisAgent: update_status(COMPLETED), no re-evaluation
ExecFinishRootCause(i) ==
    /\ inv[i].pc = "finish"
    /\ inv[i].agent_type = "RootCauseAnalysisAgent"
    /\ IF UpdateRaises(ctx)
       THEN /\ ctx' = ctx
            /\ Step(i, [inv[i] EXCEPT !.pc = "done", !.out = "error"])
            /\ Running(i, "error")
       ELSE /\ ctx' = UpdateStatusItem(ctx, "COMPLETED")
            /\ Step(i, [inv[i] EXCEPT !.pc = "done", !.out = "investigation_completed"])
            /\ Running(i, "investigation_completed")
    /\ UNCHANGED <<meta, task, result, plan, sqs, dispatched, obj>>

\* any other agent: the RE_EVALUATE message, when INVESTIGATION_QUEUE_URL is set
ExecFinishSend(i, queue_url) ==
    /\ inv[i].pc = "finish"
    /\ inv[i].agent_type # "RootCauseAnalysisAgent"
    /\ sqs' = IF queue_url THEN sqs + 1 ELSE sqs
    /\ Step(i, [inv[i] EXCEPT !.pc = "done", !.out = "completed"])
    /\ Running(i, "completed")
    /\ UNCHANGED <<meta, task, result, plan, ctx, dispatched, obj>>

\* EvaluatorAgent.evaluate_investigation: reads the context and the workflow,
\* asks the model to judge them; "failed" stands for a missing notification
\* gateway or a raise of the gateway or of the model.
evaluate_investigation(failed) ==
    /\ ret' = Ret("evaluate_investigation", None,
                  IF ~ctx.exists \/ failed THEN "error" ELSE "completed")
    /\ UNCHANGED <<meta, task, result, plan, ctx, sqs, inv, dispatched, obj>>

\* BrainAgent.__init__(self, system_state): the constructor call; without
\* the argument Python raises TypeError before the body runs.
BrainAgentInit(has_system_state) ==
    IF has_system_state THEN "ok" ELSE "TypeError"

\* invoke(), the RE_EVALUATE and the ALARM branch: both build BrainAgent()
\* with no argument and have no try around it, so what invoke gives back is
\* the exception.  The statuses are those of the two return statements.
InvokeBrain(message_type) ==
    IF BrainAgentInit(FALSE) # "ok" THEN BrainAgentInit(FALSE)
    ELSE IF message_type = "RE_EVALUATE" THEN "re_evaluation_complete"
    ELSE "investigation_triggered"

\* invoke() on an ALARM message (it starts an investigation) or on a
\* RE_EVALUATE message the Executor has sent; a message whose handling
\* raised stays in the queue.
invoke(message_type) ==
    /\ IF message_type = "RE_EVALUATE" THEN sqs > 0 ELSE ~meta.exists
    /\ ret' = Ret("invoke", message_type, InvokeBrain(message_type))
    /\ UNCHANGED <<meta, task, result, plan, ctx, sqs, inv, dispatched, obj>>

PlannerSavesWorkflow ==
    /\ ~meta.exists
    /\ \E p \in ExecPlans : save_workflow(p)

PlannerCreatesContext ==
    /\ ~ctx.exists
    /\ create_context

AgentUpdatesHypothesis ==
    /\ ctx.current_hypothesis \in {None, ""}
    /\ \E h \in CtxHypotheses : update_hypothesis(h[1], h[2])

CancelInvestigation ==
    /\ ctx.exists /\ ctx.status = "IN_PROGRESS"
    /\ update_status("CANCELLED")

Next ==
    \/ PlannerSavesWorkflow
    \/ PlannerCreatesContext
    \/ AgentUpdatesHypothesis
    \/ CancelInvestigation
    \/ \E failed \in BOOLEAN : evaluate_investigation(failed)
    \/ \E message_type \in {"ALARM", "RE_EVALUATE"} : invoke(message_type)
    \/ \E i \in 1..MaxInvocations :
          \/ StartExecution(i)
          \/ ExecGetMetadata(i)
          \/ ExecGetTask(i)
          \/ \E outcome \in WorkerOutcomes : ExecExecuteTask(i, outcome)
          \/ ExecUpdateFinding(i)
          \/ ExecAddTimelineEvent(i)
          \/ ExecCompleteRead(i)
          \/ ExecCompleteMetadata(i)
          \/ ExecCompleteTask(i)
          \/ ExecCompleteResult(i)
          \/ ExecFinishRootCause(i)
          \/ \E queue_url \in BOOLEAN : ExecFinishSend(i, queue_url)

Spec == Init /\ [][Next]_vars

-----------------------------------------------------------------------------
(* Claims about the Executor, the Evaluator and the Coordinator *)

Invocations == 1..MaxInvocations

\* Invocation i has handed its task to the worker and has not returned yet.
HoldsTask(i) ==
    /\ inv[i].pc \notin {"idle", "get_next_task", "read_task", "execute_task", "done"}
    /\ HasGateway(inv[i].agent_type)

\* C2: two Executor invocations running concurrently for the same
\* investigation never both claim the same task: at most one of them has
\* dispatched it to the worker.
C2_NoTaskClaimedTwice ==
    \A i, j \in Invocations :
        (i # j /\ HoldsTask(i) /\ HoldsTask(j)) => inv[i].task # inv[j].task

\* The worker call of invocation i raised inside execute_task.
DispatchRaised(i) ==
    inv[i].result = [status |-> "error", error |-> "boom", confidence_score |-> NoScore]

\* C4: an exception raised while dispatching a task never leaves
\* execute_workflow, and the task ends FAILED with the exception message as
\* its error, not COMPLETED.
C4_DispatchErrorFailsTask ==
    \A i \in Invocations :
        (inv[i].pc = "done" /\ DispatchRaised(i) /\ inv[i].out = "completed")
            => /\ task[inv[i].task].status = "FAILED"
               /\ result[inv[i].task].error = "boom"

\* C8: an invocation that starts on an investigation marked CANCELLED is a
\* no-op: it never gets as far as execute_task's dispatch, so it changes no
\* task or Context state and enqueues no message.
C8_CancelledIsNoOp ==
    \A i \in Invocations :
        inv[i].cancelled =>
            /\ inv[i].pc \in {"get_next_task", "read_task", "execute_task", "done"}
            /\ inv[i].result = NoWorkerResult

\* Every task of the plan is COMPLETED and none is pending.
RoundCompleted ==
    /\ meta.exists /\ plan # <<>>
    /\ meta.pending_tasks = <<>>
    /\ \A t \in SeqToSet(TaskIdsOf(plan)) : Completed(t)

\* evaluator's threshold, in hundredths
ConfidenceThreshold == 80

\* C9: with the round fully COMPLETED, an evaluation that did not fail
\* returns conclude when the Context confidence is >= 0.8 and replan when it
\* is below.
C9_EvaluatorDecisionRule ==
    (ret.op = "evaluate_investigation" /\ ret.val # "error" /\ RoundCompleted)
        => ret.val = IF ctx.confidence >= ConfidenceThreshold
                     THEN "conclude" ELSE "replan"

\* C19: every confidence score recorded for a task lies in [0,1] (0..100
\* hundredths): no task result with an out-of-range confidence is persisted
\* by the Executor.
C19_PersistedConfidenceInRange ==
    \A t \in TaskIds :
        (result[t].exists /\ result[t].confidence_score.present)
            => result[t].confidence_score.hundredths \in 0..100

\* C20: the Context status becomes COMPLETED only through the Evaluator; no
\* Executor or Planner operation sets it.
C20_CompletedOnlyByEvaluator ==
    [][ (ctx'.status = "COMPLETED" /\ ctx.status # "COMPLETED")
        => ret'.op = "evaluate_investigation" ]_vars

\* The status strings invoke() returns.
InvokeStatuses ==
    {"execution_ongoing", "re_evaluation_complete", "investigation_triggered"}

\* C21: for every message invoke() returns a result carrying a status
\* string; no exception escapes the entry point.
C21_NoExceptionEscapesInvoke ==
    ret.op = "invoke" => ret.val \in InvokeStatuses

\* The Context holds a finding written for task t.
HasFinding(t) ==
    \E a \in AgentTypes : FindingKey(t, a) \in DOMAIN ctx.findings

\* C23: the Context writes for a task happen after the task-queue
\* transition: the Context never holds a finding for a task that is not yet
\* COMPLETED in the queue.
C23_NoFindingForPendingTask ==
    \A t \in TaskIds : (ctx.exists /\ HasFinding(t)) => Completed(t)

\* C26: complete_task is atomic: in no reachable state has the execution
\* plan recorded a task as completed (the pointer moved past it) while its
\* record is not COMPLETED or its result is not stored.
C26_CompleteTaskAtomic ==
    \A t \in TaskIds :
        Contains(meta.completed_tasks, t) => (Completed(t) /\ result[t].exists)

\* C29: when execute_workflow returns status "error" (no other invocation
\* having run), the task it picked was not marked completed and the
\* execution pointer still names it.
C29_ErrorLeavesTaskPending ==
    \A i \in Invocations :
        ( /\ inv[i].pc = "done" /\ inv[i].out = "error"
          /\ \A j \in Invocations \ {i} : inv[j].pc = "idle" )
        => /\ ~Completed(inv[i].task)
           /\ meta.current_task = inv[i].task

-----------------------------------------------------------------------------
(* The data models and their validators (aiops/models/data_models.py,      *)
(* aiops/utils/validation.py): pure functions of the object they are       *)
(* handed, held in obj.                                                    *)

StepIds == {"", "A", "B"}

\* WorkflowStep, the fields the validator reads
WorkflowSteps ==
    [step_id : StepIds, description : {"", "d"}, expected_output : {"", "o"},
     dependencies : SUBSET (StepIds \ {""})]

\* InvestigationWorkflow
Workflows ==
    [workflow_id : {"", "wf"},
     steps : {<<>>} \cup SeqsUpTo(WorkflowSteps, MaxPlanLen),
     priority : {"high"},
     estimated_duration : {30}]

\* WorkflowValidator._validate_workflow_step: the step gives no error
\* (required_data and dependencies are lists in every object of the model).
ValidWorkflowStep(step) ==
    /\ step.step_id # ""
    /\ step.description # ""
    /\ step.expected_output # ""

\* WorkflowValidator._validate_step_dependencies: no error, that is every
\* dependency is the id of some step of the workflow.
ValidStepDependencies(steps) ==
    LET step_ids == { steps[i].step_id : i \in 1..Len(steps) } IN
    \A i \in 1..Len(steps) : \A d \in steps[i].dependencies : d \in step_ids

\* WorkflowValidator.validate_workflow: is_valid, that is len(errors) == 0
ValidateWorkflow(w) ==
    /\ w.workflow_id # ""
    /\ w.steps # <<>>
    /\ w.priority # ""
    /\ w.estimated_duration > 0
    /\ \A i \in 1..Len(w.steps) :
         /\ ValidWorkflowStep(w.steps[i])
         /\ ~\E j \in 1..(i - 1) : w.steps[j].step_id = w.steps[i].step_id
    /\ ValidStepDependencies(w.steps)

InitModels == InitStores /\ ctx = NoCtx /\ obj \in Workflows

validate_workflow ==
    /\ obj \in Workflows
    /\ ret' = Ret("validate_workflow", None, ValidateWorkflow(obj))
    /\ UNCHANGED <<meta, task, result, plan, ctx, sqs, inv, dispatched, obj>>

NextModels ==
    \/ validate_workflow

SpecModels == InitModels /\ [][NextModels]_vars

\* The plan is well-formed: every step has a non-empty id, description and
\* expected output, no two steps share an id, and every dependency names a
\* step defined earlier in the plan.
StepsWellFormed(steps) ==
    /\ \A i \in 1..Len(steps) :
         /\ steps[i].step_id # ""
         /\ steps[i].description # ""
         /\ steps[i].expected_output # ""
         /\ steps[i].dependencies \subseteq { steps[j].step_id : j \in 1..(i - 1) }
    /\ \A i, j \in 1..Len(steps) : i # j => steps[i].step_id # steps[j].step_id

\* C16: validate_workflow accepts a plan (of a workflow with an id and at
\* least one step) exactly when the plan is well-formed.
C16_ValidatorAcceptsWellFormed ==
    (ret.op = "validate_workflow" /\ obj.workflow_id # "" /\ obj.steps # <<>>)
        => (ret.val <=> StepsWellFormed(obj.steps))

-----------------------------------------------------------------------------
(* BrainAgent planning on the in-memory Investigation: obj is the           *)
(* Investigation, its rounds a list of workflows, a workflow the list of its *)
(* steps' ids.                                                               *)

MaxRounds == 2
MaxSteps == 4

Namespaces == {"AWS/EC2", "AWS/RDS", "AWS/ApplicationELB", "AWS/Lambda"}

\* _create_workflow_steps: step_1, one resource step for the three known
\* namespaces, then the log analysis step.
CreateWorkflowSteps(namespace) ==
    IF namespace \in {"AWS/EC2", "AWS/RDS", "AWS/ApplicationELB"}
    THEN <<"step_1", "step_2", "step_3">>
    ELSE <<"step_1", "step_2">>

ConsolidatedFacts == SUBSET {"missing_metrics", "unresolved_patterns"}

\* _create_followup_steps: one step per gap key present, numbered in order.
CreateFollowupSteps(consolidated_facts) ==
    (IF "missing_metrics" \in consolidated_facts THEN <<"followup_1">> ELSE <<>>)
    \o (IF "unresolved_patterns" \in consolidated_facts
        THEN <<IF "missing_metrics" \in consolidated_facts
               THEN "followup_2" ELSE "followup_1">>
        ELSE <<>>)

\* f"{step_id}_retry"
RetryStepId(step_id) ==
    CASE step_id = "step_1" -> "step_1_retry"
      [] step_id = "followup_1" -> "followup_1_retry"
      [] OTHER -> "other_retry"

\* f"additional_{n}"
AdditionalStepId(n) ==
    CASE n = 1 -> "additional_1"
      [] n = 2 -> "additional_2"
      [] n = 3 -> "additional_3"
      [] n = 4 -> "additional_4"
      [] n = 5 -> "additional_5"
      [] OTHER -> "additional_n"

ExecutionResults ==
    [step_id : {"step_1", "followup_1"},
     status : {"completed", "failed"},
     next_recommended_steps : {<<>>, <<"check the logs">>}]

RECURSIVE AppendRetrySteps(_, _)
AppendRetrySteps(steps, execution_results) ==
    IF execution_results = <<>> THEN steps
    ELSE AppendRetrySteps(
             IF Head(execution_results).status = "failed"
             THEN Append(steps, RetryStepId(Head(execution_results).step_id))
             ELSE steps,
             Tail(execution_results))

RECURSIVE AppendRecommended(_, _)
AppendRecommended(steps, next_recommended_steps) ==
    IF next_recommended_steps = <<>> THEN steps
    ELSE AppendRecommended(Append(steps, AdditionalStepId(Len(steps) + 1)),
                           Tail(next_recommended_steps))

RECURSIVE AppendAdditionalSteps(_, _)
AppendAdditionalSteps(steps, execution_results) ==
    IF execution_results = <<>> THEN steps
    ELSE AppendAdditionalSteps(
             AppendRecommended(steps, Head(execution_results).next_recommended_steps),
             Tail(execution_results))

\* update_workflow appends to workflow.steps, the list of the workflow object
\* it was handed, and returns that object.
UpdateWorkflowSteps(steps, execution_results) ==
    AppendAdditionalSteps(AppendRetrySteps(steps, execution_results),
                          execution_results)

NoInvestigation == [rounds |-> <<>>, current_round |-> 0]

InitPlanner == InitStores /\ ctx = NoCtx /\ obj = NoInvestigation

PlannerFrame == UNCHANGED <<meta, task, result, plan, ctx, sqs, inv, dispatched>>

\* investigation.rounds.append(round); current_round = len(rounds) - 1
AppendRound(investigation, steps) ==
    [rounds |-> Append(investigation.rounds, steps),
     current_round |-> Len(investigation.rounds)]

generate_workflow(namespace) ==
    /\ Len(obj.rounds) < MaxRounds
    /\ obj' = AppendRound(obj, CreateWorkflowSteps(namespace))
    /\ ret' = Ret("generate_workflow", namespace, CreateWorkflowSteps(namespace))
    /\ PlannerFrame

\* update_investigation_workflow hands update_workflow the workflow of
\* investigation.rounds[-1].
update_workflow(execution_results) ==
    /\ obj.rounds # <<>>
    /\ LET n == Len(obj.rounds)
           steps == UpdateWorkflowSteps(obj.rounds[n], execution_results)
       IN  /\ Len(steps) <= MaxSteps
           /\ obj' = [obj EXCEPT !.rounds[n] = steps]
           /\ ret' = Ret("update_workflow", execution_results, steps)
    /\ PlannerFrame

process_consolidated_facts(consolidated_facts) ==
    /\ Len(obj.rounds) < MaxRounds
    /\ obj' = AppendRound(obj, CreateFollowupSteps(consolidated_facts))
    /\ ret' = Ret("process_consolidated_facts", consolidated_facts,
                  CreateFollowupSteps(consolidated_facts))
    /\ PlannerFrame

NextPlanner ==
    \/ \E namespace \in Namespaces : generate_workflow(namespace)
    \/ \E execution_results \in SeqsUpTo(ExecutionResults, 1) :
           update_workflow(execution_results)
    \/ \E consolidated_facts \in ConsolidatedFacts :
           process_consolidated_facts(consolidated_facts)

SpecPlanner == InitPlanner /\ [][NextPlanner]_vars

\* C22: no Planner operation changes the task list of a round that already
\* exists: every round present before the step is still there with the same
\* steps after it, and new steps only arrive in a newly appended round.
C22_ExistingRoundsUnchanged ==
    [][\A r \in 1..Len(obj.rounds) :
           /\ r <= Len(obj'.rounds)
           /\ obj'.rounds[r] = obj.rounds[r]]_vars

-----------------------------------------------------------------------------
(* ExecutorAgent.execute_task on its own: obj is one call, the task dict it *)
(* is given and what the worker agent does.                                 *)

ExecuteTaskCalls ==
    [agent_type : AgentTypes \cup {Missing},
     description : {"check the logs", Missing},
     outcome : WorkerOutcomes \cup StatusMessages]

\* task['agent_type'] and task['description'] are read before the try block,
\* so a task dict without them raises KeyError out of execute_task.
ExecuteTask(call) ==
    IF call.agent_type = Missing \/ call.description = Missing
    THEN [raised |-> "KeyError", result |-> NoWorkerResult]
    ELSE [raised |-> None,
          result |-> ExecuteTaskResult(call.agent_type, call.outcome)]

InitExecuteTask == InitStores /\ ctx = NoCtx /\ obj \in ExecuteTaskCalls

execute_task ==
    /\ ret.op = "init"
    /\ ret' = Ret("execute_task", None, ExecuteTask(obj))
    /\ UNCHANGED <<meta, task, result, plan, ctx, sqs, inv, dispatched, obj>>

NextExecuteTask ==
    \/ execute_task

SpecExecuteTask == InitExecuteTask /\ [][NextExecuteTask]_vars

\* C27: whatever the worker answers and whatever fails, the result that
\* execute_task returns carries the status "completed" or "error".
C27_ResultStatusCompletedOrError ==
    (ret.op = "execute_task" /\ ret.val.raised = None)
        => ret.val.result.status \in {"completed", "error"}

-----------------------------------------------------------------------------
(* The SQS trigger (cdk/lambda/sqs_trigger.py): obj is one run of           *)
(* lambda_handler, a step one pass through the body of its retry loop.      *)
(* log[r] lists, for record r, how each invoke_agent_runtime call ended     *)
(* (the line the handler prints per attempt).                               *)

MaxRecords == 2
max_retries == 3

MessageIds == {"m1", "m2", "m3", "m4"}

\* event['Records'], named by their messageId
Events ==
    { records \in UNION { [1..n -> MessageIds] : n \in 0..MaxRecords } :
          \A i, j \in 1..Len(records) : records[i] = records[j] => i = j }

\* failed_messages = [] and the first record's max_retries, retry_delay
HandlerStart(records) ==
    [pc |-> "loop", records |-> records, record |-> 1, attempt |-> 0,
     retry_delay |-> 1, failed_messages |-> <<>>,
     log |-> [r \in 1..Len(records) |-> <<>>]]

\* The for loop over the records moves on: retry_delay = 1 again.
NextRecord(h) == [h EXCEPT !.record = h.record + 1, !.attempt = 0,
                           !.retry_delay = 1]

\* invoke_agent_runtime returned: break
AttemptSucceeds(h) ==
    NextRecord([h EXCEPT !.log[h.record] = Append(@, TRUE)])

\* The except branch that loses the record it gave up on.
AttemptFailsForgets(h) ==
    LET logged == [h EXCEPT !.log[h.record] = Append(@, FALSE)]
    IN  IF h.attempt < max_retries - 1
        THEN [logged EXCEPT !.attempt = h.attempt + 1,
                            !.retry_delay = h.retry_delay * 2]
        ELSE NextRecord(logged)

\* invoke_agent_runtime raised: sleep and double the delay, or after the
\* last attempt append the messageId to failed_messages.
AttemptFails(h) ==
    LET logged == [h EXCEPT !.log[h.record] = Append(@, FALSE)]
    IN  IF h.attempt < max_retries - 1
        THEN [logged EXCEPT !.attempt = h.attempt + 1,
                            !.retry_delay = h.retry_delay * 2]
        ELSE NextRecord([logged EXCEPT !.failed_messages =
                                           Append(@, h.records[h.record])])

\* The handler's return value; statusCode 0 stands for a dict without it.
HandlerResponse(h) ==
    IF h.failed_messages # <<>>
    THEN [statusCode |-> 0, batchItemFailures |-> h.failed_messages]
    ELSE [statusCode |-> 200, batchItemFailures |-> <<>>]

InitTrigger ==
    /\ InitStores /\ ctx = NoCtx
    /\ obj \in { HandlerStart(records) : records \in Events }

TriggerFrame == UNCHANGED <<meta, task, result, plan, ctx, sqs, inv, dispatched>>

InvokeAgentRuntime(ok) ==
    /\ obj.pc = "loop"
    /\ obj.record <= Len(obj.records)
    /\ obj' = IF ok THEN AttemptSucceeds(obj) ELSE AttemptFails(obj)
    /\ UNCHANGED ret
    /\ TriggerFrame

lambda_handler_return ==
    /\ obj.pc = "loop"
    /\ obj.record > Len(obj.records)
    /\ obj' = [obj EXCEPT !.pc = "done"]
    /\ ret' = Ret("lambda_handler", None, HandlerResponse(obj))
    /\ TriggerFrame

NextTrigger ==
    \/ \E ok \in BOOLEAN : InvokeAgentRuntime(ok)
    \/ lambda_handler_return

\* The Lambda runtime runs the handler's sequential code to its return.
SpecTrigger == InitTrigger /\ [][NextTrigger]_vars /\ WF_vars(NextTrigger)

AllFailed(attempts) ==
    Len(attempts) = max_retries /\ \A k \in 1..Len(attempts) : ~attempts[k]

\* What holds of a run at every moment: at most 3 invocations per record, no
\* invocation for a record after one that succeeded, and at the return every
\* record was tried and batchItemFailures names exactly the records whose 3
\* attempts failed, the response being statusCode 200 when there are none.
TriggerRunCorrect ==
    /\ \A r \in 1..Len(obj.records) :
           /\ Len(obj.log[r]) <= max_retries
           /\ \A k \in 1..(Len(obj.log[r]) - 1) : ~obj.log[r][k]
    /\ obj.pc = "done" =>
           /\ ret.op = "lambda_handler"
           /\ \A r \in 1..Len(obj.records) : obj.log[r] # <<>>
           /\ SeqToSet(ret.val.batchItemFailures)
                  = { obj.records[r] : r \in { q \in 1..Len(obj.records) :
                                                   AllFailed(obj.log[q]) } }
           /\ NoDuplicates(ret.val.batchItemFailures)
           /\ (ret.val.batchItemFailures = <<>>) <=> (ret.val.statusCode = 200)

\* C30: lambda_handler always terminates, invokes the runtime at most 3 times
\* per record, stops retrying a record after its first success, and reports
\* in batchItemFailures exactly the records whose 3 attempts all failed
\* (statusCode 200 when there are none).
C30_TriggerRetriesAndReports ==
    /\ []TriggerRunCorrect
    /\ <>(obj.pc = "done")

C30_Witness ==
    /\ obj.pc = "done"
    /\ Len(obj.records) = 2
    /\ AllFailed(obj.log[1])
    /\ obj.log[2] = <<FALSE, TRUE>>
    /\ ret.val.batchItemFailures = <<obj.records[1]>>

-----------------------------------------------------------------------------
(* Message-driven execution: the investigation queue delivers each message  *)
(* to invoke().  obj counts the EXECUTION messages in the queue, sqs the     *)
(* RE_EVALUATE messages the Executor has sent.  INVESTIGATION_QUEUE_URL is   *)
(* set, the worker agents answer, nothing crashes.                           *)

InitDelivery == InitStores /\ ctx = NoCtx /\ obj = 0

\* storage_tools.trigger_investigation, called by the planner once the
\* workflow and the context are saved: one EXECUTION message.
trigger_investigation ==
    /\ meta.exists /\ ctx.exists
    /\ obj = 0 /\ sqs = 0
    /\ \A i \in 1..MaxInvocations : inv[i].pc = "idle"
    /\ obj' = obj + 1
    /\ ret' = Ret("trigger_investigation", None, None)
    /\ UNCHANGED <<meta, task, result, plan, ctx, sqs, inv, dispatched>>

\* The queue hands an EXECUTION message to invoke(), which runs
\* ExecutorAgent().execute_workflow.
DeliverExecution(i) ==
    /\ obj > 0
    /\ inv[i].pc = "idle"
    /\ obj' = obj - 1
    /\ Step(i, [inv[i] EXCEPT !.pc = "get_next_task",
                              !.cancelled = (ctx.exists /\ ctx.status = "CANCELLED")])
    /\ Running(i, "get_next_task")
    /\ UNCHANGED <<meta, task, result, plan, ctx, sqs, dispatched>>

\* The queue is at-least-once: a message already delivered may be delivered
\* again (a duplicate, or the retry of a batch item the trigger reported).
RedeliverExecution ==
    /\ obj = 0
    /\ \E i \in 1..MaxInvocations : inv[i].pc # "idle"
    /\ \E i \in 1..MaxInvocations : inv[i].pc = "idle"
    /\ obj' = obj + 1
    /\ UNCHANGED <<meta, task, result, plan, ctx, sqs, inv, dispatched, ret>>

DeliveryStep ==
    \/ PlannerSavesWorkflow
    \/ PlannerCreatesContext
    \/ trigger_investigation
    \/ invoke("RE_EVALUATE")
    \/ \E i \in 1..MaxInvocations :
          \/ DeliverExecution(i)
          \/ ExecGetMetadata(i)
          \/ ExecGetTask(i)
          \/ \E outcome \in {"done", "{\"confidence_score\": 2}"} :
                 ExecExecuteTask(i, outcome)
          \/ ExecUpdateFinding(i)
          \/ ExecAddTimelineEvent(i)
          \/ ExecCompleteRead(i)
          \/ ExecCompleteMetadata(i)
          \/ ExecCompleteTask(i)
          \/ ExecCompleteResult(i)
          \/ ExecFinishRootCause(i)
          \/ ExecFinishSend(i, TRUE)

NextDelivery ==
    \/ DeliveryStep
    \/ RedeliverExecution

\* Fair delivery and no crashes: a message in the queue is delivered and a
\* running invocation takes its next step.  A second delivery of the same
\* message may happen but nothing promises it.
SpecDelivery == InitDelivery /\ [][NextDelivery]_vars /\ WF_vars(DeliveryStep)

\* C25: once a plan is saved and its execution triggered, every task of the
\* plan is eventually executed: the invocation that completes a task that is
\* not the last triggers the next Executor invocation, until no task is
\* pending.
C25_EveryTaskEventuallyExecuted ==
    (meta.exists /\ obj > 0) ~> (meta.pending_tasks = <<>>)

====
